---- MODULE Spec2Model ----
(***************************************************************************)
(* Model of the document traversal of packages/hint (utils/dom/traverse.ts) *)
(* feeding an event bus (Engine.emitAsync), of the connector event sequence *)
(* that connector-chrome/tests/events.ts expects, and of the rule           *)
(* highest-available-document-mode reporting Problems through its context.  *)
(*                                                                          *)
(* A traversal is an async function: it runs from one `await` to the next   *)
(* and is suspended in between.  Every action of a traversal below is one   *)
(* such run; the bus dispatches the handlers of an emitAsync call while the *)
(* caller is suspended.                                                     *)
(***************************************************************************)
EXTENDS Integers, Sequences, FiniteSets, TLC

VARIABLES
    doc,        \* the HTMLDocument: [n, parent, nodeName], elements 1..n, 1 the documentElement
    listeners,  \* the handlers registered on the engine, in registration order
    tasks,      \* the calls of traverse(): status, resource, position, call stack
    emitted,    \* every engine.emitAsync call made so far, in call order
    settled,    \* per emitAsync call: "pending", "fulfilled" or "rejected"
    dispatch,   \* per emitAsync call: handlers still to invoke, handler running
    invoked,    \* every handler invocation so far: [handler, call]
    firstFault, \* the first handler invocation that threw or rejected: [handler, call]
    busFault,   \* some emitAsync call was rejected by the bus itself
    overlapped, \* some traverse() was called while another had not settled
    conn,       \* connector.collect(): its position and the call it awaits
    subs,       \* per sub-resource of the page: "none", "started" or "done"
    context,    \* the RuleContext given to the rule: options, browsers, page, severity
    requireMetaTag, \* the rule's `requireMetaTag`
    suggestRemoval, \* the rule's `suggestRemoval`
    problems,   \* the Problems reported so far, in insertion order
    validation, \* the rule's handler: the calls of validate() and what they await
    messages,   \* the array of Problems given to the formatter
    formatter   \* the call of format(): its promise, what it logged and wrote

hintVars == <<context, requireMetaTag, suggestRemoval, problems, validation>>

formatVars == <<messages, formatter>>

vars == <<doc, listeners, tasks, emitted, settled, dispatch, invoked, firstFault,
          busFault, overlapped, conn, subs, hintVars, formatVars>>

----------------------------------------------------------------------------
(* Bounds of the model *)

MaxNodes == 3        \* elements of an enumerated document
MaxEvents == 2       \* traverse::end events the rule's handler is invoked for
MaxProblems == 3     \* Problems in a list given to the formatter
MaxLines == 6        \* lines of the source code of a Problem

----------------------------------------------------------------------------
(* Documents *)

\* element.nodeName as the provider gives it, a sequence of characters
NodeNames == { <<"P">>, <<"h", "1">> }

LowerChar(c) ==
    CASE c = "P" -> "p"
      [] c = "H" -> "h"
      [] c = "T" -> "t"
      [] c = "M" -> "m"
      [] c = "L" -> "l"
      [] c = "E" -> "e"
      [] c = "A" -> "a"
      [] c = "D" -> "d"
      [] c = "I" -> "i"
      [] c = "B" -> "b"
      [] c = "O" -> "o"
      [] c = "Y" -> "y"
      [] OTHER -> c

\* String.prototype.toLowerCase
ToLowerCase(s) == [i \in DOMAIN s |-> LowerChar(s[i])]

\* every tree of n elements: the parent of element i > 1 is an earlier element
TreesOf(n) ==
    { p \in [1..n -> 0..n] : p[1] = 0 /\ \A i \in 2..n : p[i] \in 1..(i - 1) }

DocsUpTo(k) ==
    UNION { { [n |-> n, parent |-> p, nodeName |-> nm] :
                p \in TreesOf(n), nm \in [1..n -> NodeNames] } : n \in 1..k }

\* the tree html(head(title), body(h1, p)) as a provider that upper-cases nodeName
SeedDoc ==
    [n |-> 6,
     parent |-> <<0, 1, 2, 1, 4, 4>>,
     nodeName |-> << <<"H","T","M","L">>, <<"H","E","A","D">>,
                     <<"T","I","T","L","E">>, <<"B","O","D","Y">>,
                     <<"H","1">>, <<"P">> >>]

RECURSIVE SortedSeq(_)
SortedSeq(S) ==
    IF S = {} THEN <<>>
    ELSE LET m == CHOOSE x \in S : \A y \in S : x <= y
         IN <<m>> \o SortedSeq(S \ {m})

\* element.children, in document order
ChildrenButLast(d, e) ==
    LET cs == SortedSeq({ c \in 1..d.n : d.parent[c] = e })
    IN IF cs = <<>> THEN cs ELSE SubSeq(cs, 1, Len(cs) - 1)
Children(d, e) == SortedSeq({ c \in 1..d.n : d.parent[c] = e })

----------------------------------------------------------------------------
(* Events and listeners *)

EventName(ns, nm) == [ns |-> ns, nm |-> nm]

\* `element::${element.nodeName.toLowerCase()}`
ElementEventNameNoLower(d, e) == EventName("element", d.nodeName[e])
ElementEventName(d, e) == EventName("element", ToLowerCase(d.nodeName[e]))

\* the event traverseAndNotify emits at each of its three emitAsync calls
FrameEventDownFirst(d, e, pc) ==
    CASE pc = "element" -> EventName("traverse", <<"down">>)
      [] pc = "down" -> ElementEventName(d, e)
      [] pc = "up" -> EventName("traverse", <<"up">>)
FrameEventUpFirst(d, e, pc) ==
    CASE pc = "element" -> ElementEventName(d, e)
      [] pc = "down" -> EventName("traverse", <<"up">>)
      [] pc = "up" -> EventName("traverse", <<"down">>)
FrameEvent(d, e, pc) ==
    CASE pc = "element" -> ElementEventName(d, e)
      [] pc = "down" -> EventName("traverse", <<"down">>)
      [] pc = "up" -> EventName("traverse", <<"up">>)

\* the event traverse() emits before and after the walk
TopEventSwapped(pos) ==
    IF pos = "start" THEN EventName("traverse", <<"end">>)
    ELSE EventName("traverse", <<"start">>)
TopEvent(pos) ==
    IF pos = "start" THEN EventName("traverse", <<"start">>)
    ELSE EventName("traverse", <<"end">>)

\* an emitAsync call: the event name, the payload, and the caller; request, hops
\* and statusCode are set in the payload of fetch::end::* and fetch::error only
Event(name, e, r, t) ==
    [ns |-> name.ns, nm |-> name.nm, element |-> e, resource |-> r, task |-> t,
     request |-> "", hops |-> <<>>, statusCode |-> 0]

Wildcard == <<"*">>

\* the handler sets registered for a scan
ListenerConfigs ==
    { <<>>,
      << EventName("element", <<"p">>), EventName("element", <<"p">>) >>,
      << EventName("element", Wildcard) >>,
      << EventName("element", Wildcard), EventName("element", <<"p">>),
         EventName("traverse", <<"down">>) >> }

IsExact(l, ev) == l.ns = ev.ns /\ l.nm = ev.nm
IsWild(l, ev) == l.ns = ev.ns /\ l.nm = Wildcard /\ ev.nm # Wildcard

RECURSIVE IndicesWhere(_, _, _, _)
IndicesWhere(ls, ev, wild, i) ==
    IF i > Len(ls) THEN <<>>
    ELSE (IF (IF wild THEN IsWild(ls[i], ev) ELSE IsExact(ls[i], ev))
          THEN <<i>> ELSE <<>>) \o IndicesWhere(ls, ev, wild, i + 1)

\* the handlers emitAsync invokes for an event: exact-name listeners first,
\* then wildcard listeners, each group in registration order
MatchingHandlersAsRegistered(ls, ev) ==
    SortedSeq({ i \in DOMAIN ls : IsExact(ls[i], ev) \/ IsWild(ls[i], ev) })
MatchingHandlers(ls, ev) ==
    IndicesWhere(ls, ev, FALSE, 1) \o IndicesWhere(ls, ev, TRUE, 1)

\* what the bus does with a call once a handler has finished: a fault of the
\* handler is isolated, dispatch goes on with the handlers that remain
AfterHandlerNoIsolation(rest, threw) ==
    IF threw THEN [rest |-> <<>>, settle |-> "rejected"]
    ELSE [rest |-> rest, settle |-> "pending"]
AfterHandler(rest, threw) == [rest |-> rest, settle |-> "pending"]

----------------------------------------------------------------------------
(* The traversal *)

Tasks == {1, 2}
Resources == {"http://localhost/", "http://localhost/frame"}

Idle == [status |-> "idle", resource |-> "", top |-> "none", frames |-> <<>>,
         awaiting |-> 0]

\* `await p`: the caller is suspended until the awaited promise has settled
BlockedNever(t) == FALSE
Blocked(t) ==
    /\ tasks[t].awaiting # 0
    /\ settled[tasks[t].awaiting] = "pending"

\* the awaited promise rejected: `await` throws
Thrown(t) ==
    /\ tasks[t].awaiting # 0
    /\ settled[tasks[t].awaiting] = "rejected"

Ready(t) == tasks[t].status = "running" /\ ~Blocked(t) /\ ~Thrown(t)

Top(t) == tasks[t].frames[Len(tasks[t].frames)]

\* engine.emitAsync(name, payload): the call is recorded and its dispatch begins
EmitAsync(ev) ==
    /\ emitted' = Append(emitted, ev)
    /\ settled' = Append(settled, "pending")
    /\ dispatch' = Append(dispatch,
                          [rest |-> MatchingHandlers(listeners, ev), active |-> 0])

NextCall == Len(emitted) + 1

SetTask(t, rec) == tasks' = [tasks EXCEPT ![t] = rec]

\* traverse(document, engine, resource) is called: traverse::start is emitted
Traverse(t, r) ==
    /\ tasks[t].status = "idle"
    /\ EmitAsync(Event(TopEvent("start"), 0, r, t))
    /\ SetTask(t, [status |-> "running", resource |-> r, top |-> "start",
                   frames |-> <<>>, awaiting |-> NextCall])
    /\ overlapped' = (overlapped \/ \E u \in Tasks \ {t} : tasks[u].status = "running")
    /\ UNCHANGED <<conn, subs, hintVars, formatVars, doc, listeners, invoked, firstFault, busFault>>

\* traverseAndNotify(element, ...) is entered: element::<tag> is emitted
TraverseAndNotify(t, e, below, top) ==
    /\ EmitAsync(Event(FrameEvent(doc, e, "element"), e, tasks[t].resource, t))
    /\ SetTask(t, [tasks[t] EXCEPT
                     !.top = top,
                     !.frames = Append(below, [element |-> e, pc |-> "element", i |-> 0]),
                     !.awaiting = NextCall])
    /\ UNCHANGED <<conn, subs, hintVars, formatVars, doc, listeners, invoked, firstFault, busFault, overlapped>>

\* traverse::start has settled: traverseAndNotify(documentElement, ...)
TraverseRoot(t) ==
    /\ Ready(t)
    /\ tasks[t].top = "start"
    /\ TraverseAndNotify(t, 1, <<>>, "root")

\* element::<tag> has settled: traverse::down is emitted
EmitDown(t) ==
    /\ Ready(t)
    /\ tasks[t].frames # <<>>
    /\ Top(t).pc = "element"
    /\ EmitAsync(Event(FrameEvent(doc, Top(t).element, "down"), Top(t).element,
                       tasks[t].resource, t))
    /\ SetTask(t, [tasks[t] EXCEPT
                     !.frames[Len(tasks[t].frames)].pc = "down",
                     !.awaiting = NextCall])
    /\ UNCHANGED <<conn, subs, hintVars, formatVars, doc, listeners, invoked, firstFault, busFault, overlapped>>

\* the frame on top is in its loop over element.children
InLoop(t) ==
    /\ Ready(t)
    /\ tasks[t].frames # <<>>
    /\ Top(t).pc \in {"down", "child"}

\* the loop has a next child: traverseAndNotify(child, ...)
TraverseChild(t) ==
    /\ InLoop(t)
    /\ Top(t).i < Len(Children(doc, Top(t).element))
    /\ LET k == Len(tasks[t].frames)
           f == Top(t)
           parentFrame == [f EXCEPT !.pc = "child", !.i = f.i + 1]
       IN TraverseAndNotify(t, Children(doc, f.element)[f.i + 1],
                       [tasks[t].frames EXCEPT ![k] = parentFrame], tasks[t].top)

\* the loop is over: traverse::up is emitted
EmitUp(t) ==
    /\ InLoop(t)
    /\ Top(t).i >= Len(Children(doc, Top(t).element))
    /\ EmitAsync(Event(FrameEvent(doc, Top(t).element, "up"), Top(t).element,
                       tasks[t].resource, t))
    /\ SetTask(t, [tasks[t] EXCEPT
                     !.frames[Len(tasks[t].frames)].pc = "up",
                     !.awaiting = NextCall])
    /\ UNCHANGED <<conn, subs, hintVars, formatVars, doc, listeners, invoked, firstFault, busFault, overlapped>>

\* traverse::up has settled: traverseAndNotify returns, its promise fulfils
Return(t) ==
    /\ Ready(t)
    /\ tasks[t].frames # <<>>
    /\ Top(t).pc = "up"
    /\ SetTask(t, [tasks[t] EXCEPT
                     !.frames = SubSeq(tasks[t].frames, 1, Len(tasks[t].frames) - 1),
                     !.awaiting = 0])
    /\ UNCHANGED <<conn, subs, hintVars, formatVars, doc, listeners, emitted, settled, dispatch, invoked, firstFault,
                   busFault, overlapped>>

\* traverseAndNotify(documentElement) has returned: traverse::end is emitted
EmitTraverseEnd(t) ==
    /\ Ready(t)
    /\ tasks[t].top = "root"
    /\ tasks[t].frames = <<>>
    /\ EmitAsync(Event(TopEvent("end"), 0, tasks[t].resource, t))
    /\ SetTask(t, [tasks[t] EXCEPT !.top = "end", !.awaiting = NextCall])
    /\ UNCHANGED <<conn, subs, hintVars, formatVars, doc, listeners, invoked, firstFault, busFault, overlapped>>

\* traverse::end has settled: the promise of traverse() fulfils
Finish(t) ==
    /\ Ready(t)
    /\ tasks[t].top = "end"
    /\ SetTask(t, [tasks[t] EXCEPT !.status = "fulfilled", !.awaiting = 0])
    /\ UNCHANGED <<conn, subs, hintVars, formatVars, doc, listeners, emitted, settled, dispatch, invoked, firstFault,
                   busFault, overlapped>>

\* an awaited emitAsync rejected: nothing catches, the promise of traverse() rejects
Abort(t) ==
    /\ tasks[t].status = "running"
    /\ Thrown(t)
    /\ SetTask(t, [tasks[t] EXCEPT !.status = "rejected", !.frames = <<>>,
                                   !.awaiting = 0])
    /\ UNCHANGED <<conn, subs, hintVars, formatVars, doc, listeners, emitted, settled, dispatch, invoked, firstFault,
                   busFault, overlapped>>

\* the steps of a traversal none of whose emitAsync calls rejects
Walk(t) ==
    \/ TraverseRoot(t)
    \/ EmitDown(t)
    \/ TraverseChild(t)
    \/ EmitUp(t)
    \/ Return(t)
    \/ EmitTraverseEnd(t)
    \/ Finish(t)

TaskStep(t) ==
    \/ Walk(t)
    \/ Abort(t)

----------------------------------------------------------------------------
(* The bus: dispatch of an emitAsync call *)

NoFault == [handler |-> 0, call |-> 0]

Pending(c) == c \in 1..Len(settled) /\ settled[c] = "pending"

\* the next handler of call c is invoked, once the previous one has finished
Invoke(c) ==
    /\ Pending(c)
    /\ dispatch[c].active = 0
    /\ dispatch[c].rest # <<>>
    /\ dispatch' = [dispatch EXCEPT ![c] = [rest |-> Tail(dispatch[c].rest),
                                            active |-> Head(dispatch[c].rest)]]
    /\ invoked' = Append(invoked, [handler |-> Head(dispatch[c].rest), call |-> c])
    /\ UNCHANGED <<conn, subs, hintVars, formatVars, doc, listeners, tasks, emitted, settled, firstFault, busFault,
                   overlapped>>

\* the running handler of call c finishes, normally or by throwing/rejecting
HandlerSettles(c, threw) ==
    /\ Pending(c)
    /\ dispatch[c].active # 0
    /\ LET after == AfterHandler(dispatch[c].rest, threw)
       IN /\ dispatch' = [dispatch EXCEPT ![c] = [rest |-> after.rest, active |-> 0]]
          /\ settled' = [settled EXCEPT ![c] = after.settle]
    /\ firstFault' = IF threw /\ firstFault = NoFault
                     THEN [handler |-> dispatch[c].active, call |-> c]
                     ELSE firstFault
    /\ UNCHANGED <<conn, subs, hintVars, formatVars, doc, listeners, tasks, emitted, invoked, busFault, overlapped>>

\* every matching handler has finished: the promise of the call fulfils
Settle(c) ==
    /\ Pending(c)
    /\ dispatch[c].active = 0
    /\ dispatch[c].rest = <<>>
    /\ settled' = [settled EXCEPT ![c] = "fulfilled"]
    /\ UNCHANGED <<conn, subs, hintVars, formatVars, doc, listeners, tasks, emitted, dispatch, invoked, firstFault,
                   busFault, overlapped>>

\* a fault of the bus itself (not of a handler): the promise of the call rejects
BusRejects(c) ==
    /\ Pending(c)
    /\ dispatch[c].active = 0
    /\ settled' = [settled EXCEPT ![c] = "rejected"]
    /\ busFault' = TRUE
    /\ UNCHANGED <<conn, subs, hintVars, formatVars, doc, listeners, tasks, emitted, dispatch, invoked, firstFault,
                   overlapped>>

Calls == 1..Len(emitted)

----------------------------------------------------------------------------
(* The rule highest-available-document-mode and the Problems it reports *)

Null == "(null)"             \* getAttribute of an absent attribute
Undefined == "(undefined)"   \* a property that is not there

\* the values of requireMetaTag and suggestRemoval
Configs(required, removal) == [requireMetaTag |-> required, suggestRemoval |-> removal]

\* the state of the rule before create() is called
\*   status, pc, resource, tags, i: the promise of the running validate(), where
\*       checkMetaTag is suspended, and its locals
\*   header: the promise of the checkHeader() call that validate() does not await
\*   escaped: a promise rejected that nothing awaits
\*   calls, headerCalls, reports, factory, used: a record of the calls of
\*       validate(), checkHeader() and context.report(), of the values
\*       loadRuleConfigs() set and of the values the checks last read
\*   mark: the number of Problems there were when validate() was last called
NotCreated ==
    [created |-> FALSE, status |-> "idle", pc |-> "none", resource |-> "",
     header |-> "none", escaped |-> FALSE, tags |-> <<>>, i |-> 0,
     calls |-> <<>>, headerCalls |-> <<>>, reports |-> 0, mark |-> 0,
     factory |-> Configs(FALSE, FALSE), used |-> Configs(FALSE, FALSE)]

\* context.ruleOptions: defined or not, and its requireMetaTag
RuleOptions ==
    { [defined |-> FALSE, requireMetaTag |-> FALSE],
      [defined |-> TRUE, requireMetaTag |-> FALSE],
      [defined |-> TRUE, requireMetaTag |-> TRUE] }

\* context.targetedBrowsers
TargetedBrowsers == { <<"chrome 60">>, <<"chrome 60", "ie 10">> }

\* context.pageHeaders: not there, or the headers of the response; xua is the
\* value of 'x-ua-compatible', Undefined when the header was not sent
PageHeaders ==
    { [defined |-> FALSE, xua |-> Undefined] } \cup
    { [defined |-> TRUE, xua |-> v] : v \in {Undefined, "IE=Edge", "IE=8"} }

\* an element of context.pageDOM
Element(nodeName, section, httpEquiv, content) ==
    [nodeName |-> nodeName, section |-> section, httpEquiv |-> httpEquiv,
     content |-> content]

\* context.pageDOM: the elements of <head> and <body>, in document order
PageDOMs ==
    { <<>>,
      << Element("META", "head", "X-UA-Compatible", "IE=Edge") >>,
      << Element("script", "head", Null, Null),
         Element("meta", "head", "x-ua-compatible", "IE=8") >>,
      << Element("title", "head", Null, Null),
         Element("meta", "head", Null, Null),
         Element("meta", "head", "X-UA-Compatible", "ie=edge"),
         Element("meta", "body", "x-ua-compatible", Null) >>,
      << Element("meta", "body", "X-UA-Compatible", "ie=edge"),
         Element("meta", "body", "X-UA-Compatible", "ie=edge") >>,
      << Element("TITLE", "head", Null, Null),
         Element("meta", "head", "X-UA-Compatible", "ie=edge"),
         Element("script", "head", Null, Null),
         Element("META", "head", "x-ua-compatible", "ie=edge"),
         Element("meta", "body", "X-UA-Compatible", "ie=edge") >>,
      << Element("script", "head", Null, Null),
         Element("meta", "body", "X-UA-Compatible", "IE=Edge") >> }

Severities == {"off", "warning", "error"}

NoContext ==
    [ruleOptions |-> [defined |-> FALSE, requireMetaTag |-> FALSE],
     targetedBrowsers |-> <<>>,
     pageHeaders |-> [defined |-> FALSE, xua |-> Undefined],
     pageDOM |-> <<>>, severity |-> "warning"]

\* String.prototype.toLowerCase on the strings of the model
ToLowerCaseString(str) ==
    CASE str = "X-UA-Compatible" -> "x-ua-compatible"
      [] str = "IE=Edge" -> "ie=edge"
      [] str = "IE=8" -> "ie=8"
      [] str = "META" -> "meta"
      [] str = "TITLE" -> "title"
      [] OTHER -> str

\* url.parse(resource).protocol, which url.parse lower-cases
Protocol(resource) ==
    CASE resource = "file:///index.html" -> "file:"
      [] resource = "FILE:///C:/index.html" -> "file:"
      [] resource = "http://localhost/" -> "http:"
      [] OTHER -> "https:"

HintResources == {"http://localhost/", "file:///index.html", "FILE:///C:/index.html"}

\* Array.prototype.includes
Includes(array, e) == \E k \in DOMAIN array : array[k] = e

engineVars == <<doc, listeners, tasks, emitted, settled, dispatch, invoked,
                firstFault, busFault, overlapped, conn, subs>>

\* the values loadRuleConfigs() computes from the context
LoadRuleConfigs(ctx) ==
    Configs(ctx.ruleOptions.defined /\ ctx.ruleOptions.requireMetaTag,
            \E e \in {"ie 8", "ie 9", "ie 10"} : Includes(ctx.targetedBrowsers, e))

\* the values of requireMetaTag and suggestRemoval a check reads
RuleConfigsReloaded == LoadRuleConfigs(context)
RuleConfigs == Configs(requireMetaTag, suggestRemoval)

\* rule.create(context): loadRuleConfigs() runs, the handler is returned
Create ==
    /\ ~validation.created
    /\ LET loaded == LoadRuleConfigs(context)
       IN /\ requireMetaTag' = loaded.requireMetaTag
          /\ suggestRemoval' = loaded.suggestRemoval
          /\ validation' = [validation EXCEPT !.created = TRUE, !.factory = loaded,
                                              !.used = loaded]
    /\ UNCHANGED <<engineVars, formatVars, context, problems>>

\* after create(), the options and the browser list of the context change
ContextChanges ==
    /\ validation.created
    /\ context' = [context EXCEPT
                      !.ruleOptions = [defined |-> TRUE,
                                       requireMetaTag |-> ~context.ruleOptions.requireMetaTag],
                      !.targetedBrowsers =
                          CHOOSE b \in TargetedBrowsers : b # context.targetedBrowsers]
    /\ UNCHANGED <<engineVars, formatVars, requireMetaTag, suggestRemoval, problems, validation>>

\* the messages of the Problems the rule reports
HeaderMissing == "Response does not include the 'X-UA-Compatible' header"
HeaderNotNeeded == "'X-UA-Compatible' HTTP response header is not needed"
HeaderValue == "The value of the 'X-UA-Compatible' HTTP response header should be 'ie=edge'"
MetaNotNeeded == "Meta tag is not needed"
MetaMissing == "No 'X-UA-Compatible' meta tag was specified"
MetaContent == "The value of 'content' should be 'ie=edge'"
MetaNotFirst == "Meta tag needs to be included before all other tags except for the '<title>' and the other '<meta>' tags"
MetaInBody == "Meta tag should not be specified in the '<body>'"
MetaAlready == "A 'X-UA-Compatible' meta tag was already specified"

HeaderMessages == {HeaderMissing, HeaderNotNeeded, HeaderValue}

\* checkHeader(resource, responseHeaders) up to its first await: whether it
\* throws, and the message it reports ("": none)
CheckHeader(resource, responseHeaders) ==
    IF ~responseHeaders.defined THEN [threw |-> TRUE, message |-> ""]
    ELSE LET headerValue == responseHeaders.xua
             cfg == RuleConfigs
         IN [threw |-> FALSE,
             message |->
                IF headerValue = Undefined
                THEN (IF ~cfg.requireMetaTag /\ ~cfg.suggestRemoval
                      THEN HeaderMissing ELSE "")
                ELSE IF cfg.suggestRemoval THEN HeaderNotNeeded
                ELSE IF ToLowerCaseString(headerValue) # "ie=edge" THEN HeaderValue
                ELSE ""]

\* whether validate() calls checkHeader for the resource
ChecksHeaderAlways(resource) == TRUE
ChecksHeader(resource) == Protocol(resource) # "file:"

\* a Problem of the sink; element 0: reported against the resource
Problem(resource, element, message, severity) ==
    [resource |-> resource, element |-> element, message |-> message,
     severity |-> severity]

\* context.report(resource, element, message): a Problem is appended, unless
\* the severity configured for the hint is off
ReportWhateverSeverity(resource, element, message) ==
    problems' = Append(problems, Problem(resource, element, message, context.severity))
Report(resource, element, message) ==
    problems' = IF context.severity = "off" THEN problems
                ELSE Append(problems,
                            Problem(resource, element, message, context.severity))

\* the handler for traverse::end is invoked: validate(event) runs up to the
\* await in checkMetaTag; checkHeader, when called, runs up to its first await
\* and its promise is left alone
Validate(resource) ==
    /\ validation.created
    /\ validation.status # "running"
    /\ Len(validation.calls) < MaxEvents
    /\ LET called == ChecksHeader(resource)
           h == IF called THEN CheckHeader(resource, context.pageHeaders)
                ELSE [threw |-> FALSE, message |-> ""]
       IN /\ IF h.message # "" THEN Report(resource, 0, h.message)
             ELSE UNCHANGED problems
          /\ validation' =
                [validation EXCEPT
                   !.status = "running", !.pc = "meta", !.resource = resource,
                   !.tags = <<>>, !.i = 0, !.mark = Len(problems),
                   !.header = IF ~called THEN "none"
                              ELSE IF h.threw THEN "rejected"
                              ELSE IF h.message # "" THEN "awaiting"
                              ELSE "fulfilled",
                   !.escaped = @ \/ h.threw,
                   !.calls = Append(@, resource),
                   !.headerCalls = IF called THEN Append(@, resource) ELSE @,
                   !.reports = IF h.message # "" THEN @ + 1 ELSE @,
                   !.used = IF called /\ ~h.threw THEN RuleConfigs ELSE @]
    /\ UNCHANGED <<engineVars, formatVars, context, requireMetaTag, suggestRemoval>>

\* the report checkHeader awaits has settled: checkHeader returns
CheckHeaderReturns ==
    /\ validation.header = "awaiting"
    /\ validation' = [validation EXCEPT !.header = "fulfilled"]
    /\ UNCHANGED <<engineVars, formatVars, context, requireMetaTag, suggestRemoval, problems>>

\* pageDOM.querySelectorAll(selector): the matching elements, in document order
QuerySelectorAll(dom, selector) ==
    LET all == [k \in 1..Len(dom) |-> k]
        isMeta(e) == ToLowerCaseString(dom[e].nodeName) = "meta"
    IN CASE selector = "meta" -> SelectSeq(all, isMeta)
         [] selector = "head *" -> SelectSeq(all, LAMBDA e : dom[e].section = "head")
         [] selector = "body meta" ->
               SelectSeq(all, LAMBDA e : dom[e].section = "body" /\ isMeta(e))

GetXUACompatibleMetaTagsCaseSensitive(dom, elements) ==
    SelectSeq(elements, LAMBDA e : dom[e].httpEquiv = "x-ua-compatible")
GetXUACompatibleMetaTags(dom, elements) ==
    SelectSeq(elements,
              LAMBDA e : /\ dom[e].httpEquiv # Null
                         /\ ToLowerCaseString(dom[e].httpEquiv) = "x-ua-compatible")

\* the value of metaTagIsBeforeRequiredElements when the loop over the
\* elements of <head> reaches the tag; TRUE when it never does
MetaTagIsBeforeRequiredElementsCaseSensitive(dom, tag) ==
    LET headElements == QuerySelectorAll(dom, "head *")
        at == { k \in DOMAIN headElements : headElements[k] = tag }
    IN \A k \in at : \A j \in 1..(k - 1) :
          dom[headElements[j]].nodeName \in {"title", "meta"}
MetaTagIsBeforeRequiredElements(dom, tag) ==
    LET headElements == QuerySelectorAll(dom, "head *")
        at == { k \in DOMAIN headElements : headElements[k] = tag }
    IN \A k \in at : \A j \in 1..(k - 1) :
          ToLowerCaseString(dom[headElements[j]].nodeName) \in {"title", "meta"}

\* the X-UA-Compatible meta tags of <body>
BodyMetaTagsNone(dom) == <<>>
BodyMetaTags(dom) == GetXUACompatibleMetaTags(dom, QuerySelectorAll(dom, "body meta"))

\* one run of checkMetaTag, from one await to the next: the Problem reported
\* (message "": none), the await reached (pc "none": checkMetaTag returns)
Step(message, element, pc, i, tags) ==
    [message |-> message, element |-> element, pc |-> pc, i |-> i, tags |-> tags]

\* checkMetaTag, resumed where v says it is suspended
CheckMetaTag(v, dom, cfg) ==
    LET tags == IF v.pc = "meta"
                THEN GetXUACompatibleMetaTags(dom, QuerySelectorAll(dom, "meta"))
                ELSE v.tags
        Done == Step("", 0, "none", 0, tags)
    IN CASE v.pc = "meta" ->
              IF ~cfg.requireMetaTag \/ cfg.suggestRemoval
              THEN (IF Len(tags) # 0
                    THEN Step(MetaNotNeeded, tags[1], "notNeeded", 1, tags)
                    ELSE Done)
              ELSE IF Len(tags) = 0 THEN Step(MetaMissing, 0, "return", 0, tags)
              ELSE LET content == dom[tags[1]].content
                       contentValue == ToLowerCaseString(IF content = Null THEN ""
                                                         ELSE content)
                   IN IF contentValue # "ie=edge"
                      THEN Step(MetaContent, tags[1], "content", 0, tags)
                      ELSE Step("", 0, "head", 0, tags)
         [] v.pc = "notNeeded" ->
              IF v.i < Len(tags)
              THEN Step(MetaNotNeeded, tags[v.i + 1], "notNeeded", v.i + 1, tags)
              ELSE Done
         [] v.pc = "content" -> Step("", 0, "head", 0, tags)
         [] v.pc = "head" ->
              IF ~MetaTagIsBeforeRequiredElements(dom, tags[1])
              THEN Step(MetaNotFirst, tags[1], "before", 0, tags)
              ELSE Step("", 0, "body", 0, tags)
         [] v.pc = "before" -> Step("", 0, "body", 0, tags)
         [] v.pc = "body" ->
              LET bodyMetaTags == BodyMetaTags(dom)
              IN IF Len(bodyMetaTags) > 0 /\ bodyMetaTags[1] = tags[1]
                 THEN Step(MetaInBody, tags[1], "return", 0, tags)
                 ELSE IF Len(tags) > 1
                 THEN Step(MetaAlready, tags[2], "already", 2, tags)
                 ELSE Done
         [] v.pc = "already" ->
              IF v.i < Len(tags)
              THEN Step(MetaAlready, tags[v.i + 1], "already", v.i + 1, tags)
              ELSE Done
         [] v.pc = "return" -> Done

\* what checkMetaTag awaits has settled: it runs on to its next await, or
\* returns, and then the promise of validate() fulfils
CheckMetaTagResumes ==
    /\ validation.status = "running"
    /\ LET o == CheckMetaTag(validation, context.pageDOM, RuleConfigs)
       IN /\ IF o.message # ""
             THEN Report(validation.resource, o.element, o.message)
             ELSE UNCHANGED problems
          /\ validation' =
                [validation EXCEPT
                   !.pc = o.pc, !.i = o.i, !.tags = o.tags,
                   !.status = IF o.pc = "none" THEN "fulfilled" ELSE @,
                   !.reports = IF o.message # "" THEN @ + 1 ELSE @,
                   !.used = IF validation.pc = "meta" THEN RuleConfigs ELSE @]
    /\ UNCHANGED <<engineVars, formatVars, context, requireMetaTag, suggestRemoval>>

\* pageDOM.querySelectorAll rejects: checkMetaTag throws, validate() rejects
QueryRejects ==
    /\ validation.status = "running"
    /\ validation.pc \in {"meta", "head", "body"}
    /\ validation' = [validation EXCEPT !.status = "rejected", !.pc = "none"]
    /\ UNCHANGED <<engineVars, formatVars, context, requireMetaTag, suggestRemoval, problems>>

InitHintCommon ==
    /\ context = NoContext
    /\ requireMetaTag = FALSE
    /\ suggestRemoval = FALSE
    /\ problems = <<>>
    /\ validation = NotCreated

----------------------------------------------------------------------------
(* The codeframe formatter *)

\* a number that may be missing from a location
NoNumber == [defined |-> FALSE, value |-> 0]
Number(n) == [defined |-> TRUE, value |-> n]

\* a ProblemLocation
Location(line, column, elementLine, elementColumn) ==
    [line |-> line, column |-> column, elementLine |-> elementLine,
     elementColumn |-> elementColumn]

\* a Problem given to the formatter; a text is a sequence of characters and
\* sourceCode a sequence of lines of text, <<>>: no source code
FormatterProblem(resource, severity, location, sourceCode) ==
    [resource |-> resource, severity |-> severity, location |-> location,
     sourceCode |-> sourceCode, message |-> "message", hintId |-> "hint"]

Spaces(n) == [k \in 1..n |-> " "]

\* the characters \s matches
WhiteSpace == {" ", "\t"}

\* String.prototype.substr(start, length) and substr(start); a negative start
\* counts from the end of the text
Substr(txt, start, length) ==
    LET from == IF start < 0 THEN (IF Len(txt) + start < 0 THEN 0 ELSE Len(txt) + start)
                ELSE start
        to == IF from + length > Len(txt) THEN Len(txt) ELSE from + length
    IN IF length <= 0 \/ from >= Len(txt) THEN <<>> ELSE SubSeq(txt, from + 1, to)

SubstrFrom(txt, start) == Substr(txt, start, Len(txt))

\* txt.match(/(\s+)/): the length of the first run of white space in the text
CountLeftWhiteSpaces(txt) ==
    LET at == { k \in DOMAIN txt : txt[k] \in WhiteSpace }
    IN IF at = {} THEN 0
       ELSE LET first == CHOOSE k \in at : \A j \in at : k <= j
                after == { k \in first..Len(txt) : txt[k] \notin WhiteSpace }
                stop == IF after = {} THEN Len(txt) + 1
                        ELSE CHOOSE k \in after : \A j \in after : k <= j
            IN stop - first

\* /^\s+$/ on the first charsToRemove characters of the text
SafeTrim(txt, charsToRemove) ==
    LET begin == Substr(txt, 0, charsToRemove)
    IN begin # <<>> /\ \A k \in DOMAIN begin : begin[k] \in WhiteSpace

\* the character for three dots, in a text
Dots == "..."
Ellipsis == << Dots >>

\* a line of the frame: its text, what it is and, for a line of the code,
\* its index in codeInLines
FrameLine(kind, i, text) == [kind |-> kind, i |-> i, text |-> text]

\* the lines codeFrame adds for index i of codeInLines
CodeFrameLine(codeInLines, i, line, column, offsetColumn, whiteSpacesToRemove) ==
    LET canTrim == SafeTrim(codeInLines[i + 1], whiteSpacesToRemove)
        partialResult == IF i = 1 \/ ~canTrim THEN codeInLines[i + 1]
                         ELSE SubstrFrom(codeInLines[i + 1], whiteSpacesToRemove)
        trimmed == IF canTrim THEN column - whiteSpacesToRemove ELSE column
        moved == IF line # 1 /\ canTrim THEN trimmed + offsetColumn ELSE trimmed
        markPosition == IF moved < 0 THEN 0 ELSE moved
        cutPosition == IF line # 1 THEN markPosition ELSE column
        cutLeft == IF cutPosition > 50
                   THEN << Dots, " " >> \o SubstrFrom(partialResult, column - 50)
                   ELSE partialResult
        cutRight == IF Len(cutLeft) > cutPosition + 50
                    THEN Substr(cutLeft, 0, cutPosition + 50) \o << " ", Dots >>
                    ELSE cutLeft
        position == IF cutPosition > 50 THEN 50 + 3 ELSE markPosition
        mark == Spaces(IF position > 0 THEN position - 1 ELSE 0) \o <<"^">>
    IN IF i = line
       THEN << FrameLine("code", i, cutRight), FrameLine("mark", i, mark) >>
       ELSE << FrameLine("code", i, partialResult) >>

RECURSIVE CodeFrameLines(_, _, _, _, _, _, _)
CodeFrameLines(codeInLines, i, lastLine, line, column, offsetColumn, whiteSpacesToRemove) ==
    IF i < lastLine
    THEN CodeFrameLine(codeInLines, i, line, column, offsetColumn, whiteSpacesToRemove)
         \o CodeFrameLines(codeInLines, i + 1, lastLine, line, column, offsetColumn,
                           whiteSpacesToRemove)
    ELSE <<>>

\* the first and the last index of the lines of the frame
FirstLineFromOne(line, extraLinesToShow) ==
    IF line - extraLinesToShow > 1 THEN line - extraLinesToShow ELSE 1
FirstLine(line, extraLinesToShow) ==
    IF line - extraLinesToShow > 0 THEN line - extraLinesToShow ELSE 0

LastLine(line, extraLinesToShow, length) ==
    IF line + (extraLinesToShow + 1) < length THEN line + (extraLinesToShow + 1)
    ELSE length

\* codeFrame(code, location): the lines of the result
CodeFrame(code, location) ==
    LET line == IF location.elementLine.defined THEN location.elementLine.value ELSE -1
        column == IF location.elementColumn.defined THEN location.elementColumn.value
                  ELSE -1
        codeInLines == << <<>> >> \o code
        whiteSpacesToRemove == CountLeftWhiteSpaces(codeInLines[Len(codeInLines)])
        offsetColumn == location.column
        extraLinesToShow == 2
        firstLine == FirstLine(line, extraLinesToShow)
        lastLine == LastLine(line, extraLinesToShow, Len(codeInLines))
    IN (IF firstLine # 0 THEN << FrameLine("ellipsis", -1, Ellipsis) >> ELSE <<>>)
       \o CodeFrameLines(codeInLines, firstLine, lastLine, line, column, offsetColumn,
                         whiteSpacesToRemove)
       \o (IF lastLine # Len(codeInLines) THEN << FrameLine("ellipsis", -1, Ellipsis) >>
           ELSE <<>>)

\* _.groupBy(messages, 'resource'): the groups, in the order their resources
\* first come in the array
GroupBy(msgs) ==
    LET firsts == { k \in DOMAIN msgs :
                      \A j \in 1..(k - 1) : msgs[j].resource # msgs[k].resource }
        keys == SortedSeq(firsts)
    IN [g \in DOMAIN keys |->
           SelectSeq(msgs, LAMBDA m : m.resource = msgs[keys[g]].resource)]

\* _.sortBy(msgs, ['location.line', 'location.column']): a stable sort
Before(a, b) ==
    \/ a.location.line < b.location.line
    \/ a.location.line = b.location.line /\ a.location.column < b.location.column

SortByLineOnly(msgs) ==
    LET rank(k) == Cardinality({ j \in DOMAIN msgs :
                                   \/ msgs[j].location.line < msgs[k].location.line
                                   \/ /\ msgs[j].location.line = msgs[k].location.line
                                      /\ j <= k })
    IN [p \in DOMAIN msgs |-> msgs[CHOOSE k \in DOMAIN msgs : rank(k) = p]]
SortBy(msgs) ==
    LET rank(k) == Cardinality({ j \in DOMAIN msgs :
                                   \/ Before(msgs[j], msgs[k])
                                   \/ ~Before(msgs[k], msgs[j]) /\ j <= k })
    IN [p \in DOMAIN msgs |-> msgs[CHOOSE k \in DOMAIN msgs : rank(k) = p]]

RECURSIVE Flatten(_)
Flatten(seqs) == IF seqs = <<>> THEN <<>> ELSE Head(seqs) \o Flatten(Tail(seqs))

\* the Problems in the order format() goes through them
SortedMessages(msgs) ==
    LET resources == GroupBy(msgs)
    IN Flatten([g \in DOMAIN resources |-> SortBy(resources[g])])

\* what format() adds to the result for one Problem; cutString leaves a
\* resource of at most 80 characters as it is
Partial(msg) ==
    [severity |-> IF msg.severity = "error" THEN "Error" ELSE "Warning",
     color |-> IF msg.severity = "error" THEN "red" ELSE "yellow",
     message |-> msg.message, hintId |-> msg.hintId, resource |-> msg.resource,
     at |-> IF msg.sourceCode # <<>> THEN << msg.location.line, msg.location.column >>
            ELSE <<>>,
     frame |-> IF msg.sourceCode # <<>> THEN CodeFrame(msg.sourceCode, msg.location)
               ELSE <<>>]

\* totalErrors and totalWarnings when every Problem has been gone through
TotalErrors(msgs) == Cardinality({ k \in DOMAIN msgs : msgs[k].severity = "error" })
TotalWarnings(msgs) == Cardinality({ k \in DOMAIN msgs : msgs[k].severity # "error" })

\* the result of format(): a part for every Problem and the line of totals
Result(msgs) ==
    LET sorted == SortedMessages(msgs)
        totalErrors == TotalErrors(sorted)
        totalWarnings == TotalWarnings(sorted)
    IN [partials |-> [k \in DOMAIN sorted |-> Partial(sorted[k])],
        totalErrors |-> totalErrors,
        errors |-> IF totalErrors = 1 THEN "error" ELSE "errors",
        totalWarnings |-> totalWarnings,
        warnings |-> IF totalWarnings = 1 THEN "warning" ELSE "warnings",
        color |-> IF totalErrors > 0 THEN "red" ELSE "yellow"]

\* stripAnsi(result): the result without its colours
StripAnsi(result) ==
    [result EXCEPT !.color = "",
                   !.partials = [k \in DOMAIN @ |-> [@[k] EXCEPT !.color = ""]]]

NoResult == Result(<<>>)

\* format() not called yet
\*   status: the promise of format(); result: what it writes when writeFileAsync
\*   is reached; presented: the Problems in the order of the result
\*   logged, written: what logger.log and writeFileAsync were given
NotCalled ==
    [status |-> "idle", options |-> [output |-> Undefined], result |-> NoResult,
     presented |-> <<>>, logged |-> <<>>, written |-> <<>>]

\* options.output: not given, empty, or the path of a file
Outputs == {Undefined, "", "report.txt"}

\* !options.output: format() logs the result
LogsAlways(options) == TRUE
Logs(options) == options.output \in {Undefined, ""}

\* format(messages, options), up to its return or to the await of
\* writeFileAsync
Format(options) ==
    /\ formatter.status = "idle"
    /\ formatter' =
          IF Len(messages) = 0
          THEN [formatter EXCEPT !.status = "fulfilled", !.options = options]
          ELSE LET result == Result(messages)
               IN IF Logs(options)
                  THEN [formatter EXCEPT !.status = "fulfilled", !.options = options,
                                         !.presented = SortedMessages(messages),
                                         !.logged = Append(@, result)]
                  ELSE [formatter EXCEPT !.status = "writing", !.options = options,
                                         !.presented = SortedMessages(messages),
                                         !.result = StripAnsi(result)]
    /\ UNCHANGED <<engineVars, hintVars, messages>>

\* writeFileAsync(options.output, ...) has written the file: format() returns
WriteFileFulfils ==
    /\ formatter.status = "writing"
    /\ formatter' = [formatter EXCEPT
                        !.status = "fulfilled",
                        !.written = Append(@, [path |-> formatter.options.output,
                                               data |-> formatter.result])]
    /\ UNCHANGED <<engineVars, hintVars, messages>>

\* writeFileAsync rejects: so does format()
WriteFileRejects ==
    /\ formatter.status = "writing"
    /\ formatter' = [formatter EXCEPT !.status = "rejected"]
    /\ UNCHANGED <<engineVars, hintVars, messages>>

InitFormatCommon ==
    /\ messages = <<>>
    /\ formatter = NotCalled

----------------------------------------------------------------------------
(* Specifications *)

TargetResource == "http://localhost/"

\* the sub-resources the page requests
SubResources == {"http://localhost/style.css", "http://localhost/script4.js"}

InitEngine ==
    /\ tasks = [t \in Tasks |-> Idle]
    /\ emitted = <<>>
    /\ settled = <<>>
    /\ dispatch = <<>>
    /\ invoked = <<>>
    /\ firstFault = NoFault
    /\ busFault = FALSE
    /\ overlapped = FALSE
    /\ conn = [pc |-> "idle", awaiting |-> 0]

InitCommon ==
    /\ InitEngine
    /\ InitHintCommon
    /\ InitFormatCommon
    /\ subs = [s \in SubResources |-> "none"]

\* one traversal of one document
Init ==
    /\ doc \in DocsUpTo(MaxNodes) \cup {SeedDoc}
    /\ listeners \in ListenerConfigs
    /\ InitCommon

Next ==
    \/ Traverse(1, TargetResource)
    \/ TaskStep(1)
    \/ \E c \in Calls : Invoke(c)
    \/ \E c \in Calls, threw \in BOOLEAN : HandlerSettles(c, threw)
    \/ \E c \in Calls : Settle(c)
    \/ \E c \in Calls : BusRejects(c)

Spec == Init /\ [][Next]_vars

----------------------------------------------------------------------------
(* Reading the log of emitAsync calls *)

Elements == 1..doc.n
Fulfilled(t) == tasks[t].status = "fulfilled"

IsTraverse(i, nm) == emitted[i].ns = "traverse" /\ emitted[i].nm = <<nm>>
IsElement(i) == emitted[i].ns = "element"

Elems(e) == { i \in Calls : IsElement(i) /\ emitted[i].element = e }
Downs(e) == { i \in Calls : IsTraverse(i, "down") /\ emitted[i].element = e }
Ups(e) == { i \in Calls : IsTraverse(i, "up") /\ emitted[i].element = e }

\* a handler that pushes on traverse::down and pops on traverse::up, after the
\* first k events: its stack, and whether every pop so far matched
RECURSIVE Matcher(_)
Matcher(k) ==
    IF k = 0 THEN [stack |-> <<>>, ok |-> TRUE]
    ELSE LET m == Matcher(k - 1)
             n == Len(m.stack)
         IN IF IsTraverse(k, "down")
            THEN [m EXCEPT !.stack = Append(m.stack, emitted[k].element)]
            ELSE IF IsTraverse(k, "up")
            THEN IF n > 0 /\ m.stack[n] = emitted[k].element
                 THEN [m EXCEPT !.stack = SubSeq(m.stack, 1, n - 1)]
                 ELSE [m EXCEPT !.ok = FALSE]
            ELSE m

\* the elements of the tree in document order (pre-order), from the parent links
RECURSIVE PreOrderFrom(_, _)
PreOrderFrom(e, todo) ==
    \* todo: the elements still to list after the subtree of e, as a stack
    LET kids == SortedSeq({ c \in Elements : doc.parent[c] = e })
        rest == kids \o todo
    IN <<e>> \o (IF rest = <<>> THEN <<>> ELSE PreOrderFrom(Head(rest), Tail(rest)))

PreOrder == PreOrderFrom(1, <<>>)

IsPrefix(a, b) == Len(a) <= Len(b) /\ a = SubSeq(b, 1, Len(a))

ElementCalls == SelectSeq([i \in Calls |-> i], IsElement)
ElementNames == [k \in DOMAIN ElementCalls |->
                    EventName(emitted[ElementCalls[k]].ns, emitted[ElementCalls[k]].nm)]
CallsOfHandler(h) ==
    LET mine == SelectSeq(invoked, LAMBDA v : v.handler = h)
    IN [k \in DOMAIN mine |-> mine[k].call]

----------------------------------------------------------------------------
(* Claims about one traversal *)

\* C1: traverse::down of an element precedes traverse::down of each of its
\* children, traverse::up of an element follows traverse::up of each of its
\* children, and a stack pushing on down and popping on up never pops a
\* non-matching element and is empty when traverse::end is emitted.
C1_ProperNesting ==
    LET downs == [e \in Elements |-> Downs(e)]
        ups == [e \in Elements |-> Ups(e)]
    IN /\ \A c \in Elements \ {1} :
            LET e == doc.parent[c]
            IN /\ \A j \in downs[c] : \E i \in downs[e] : i < j
               /\ \A j \in ups[e] : ups[c] # {} /\ \A i \in ups[c] : i < j
       /\ Matcher(Len(emitted)).ok
       /\ \A j \in Calls : IsTraverse(j, "end") => Matcher(j).stack = <<>>

C1_Witness ==
    /\ doc = SeedDoc
    /\ Fulfilled(1)
    /\ \E j \in Calls : IsTraverse(j, "end")
    /\ Cardinality(UNION { Ups(e) : e \in Elements }) = 6

\* C2: a traversal of a tree of n elements emits exactly n element::<tag>
\* events, one per element, and each is followed later by exactly one
\* traverse::up carrying the same element.
C2_OneElementEventAndOneUp ==
    LET elems == [e \in Elements |-> Elems(e)]
        ups == [e \in Elements |-> Ups(e)]
    IN /\ \A e \in Elements :
            /\ Cardinality(elems[e]) <= 1
            /\ Cardinality(ups[e]) <= 1
            /\ \A j \in ups[e] : \E i \in elems[e] : i < j
       /\ Fulfilled(1) =>
            /\ Len(ElementCalls) = doc.n
            /\ \A e \in Elements :
                 Cardinality(elems[e]) = 1 /\ Cardinality(ups[e]) = 1

C2_Witness ==
    /\ Fulfilled(1)
    /\ doc.n = 3
    /\ \E e \in Elements : Cardinality({ c \in Elements : doc.parent[c] = e }) = 2
    /\ Len(ElementCalls) = 3

\* C3: element::<tag> is emitted once per element, directly before that
\* element's traverse::down (no event in between), and traverse::down is
\* emitted for every element, with or without children.
C3_ElementThenDown ==
    /\ \A e \in Elements : Cardinality(Elems(e)) <= 1 /\ Cardinality(Downs(e)) <= 1
    /\ \A j \in Calls :
         IsTraverse(j, "down") =>
            j > 1 /\ IsElement(j - 1) /\ emitted[j - 1].element = emitted[j].element
    /\ \A i \in Calls :
         IsElement(i) /\ i < Len(emitted) =>
            IsTraverse(i + 1, "down") /\ emitted[i + 1].element = emitted[i].element
    /\ Fulfilled(1) =>
         \A e \in Elements : Cardinality(Elems(e)) = 1 /\ Cardinality(Downs(e)) = 1

C3_Witness ==
    /\ Fulfilled(1)
    /\ \E e \in Elements :
         /\ \A c \in Elements : doc.parent[c] # e
         /\ e # 1
         /\ Downs(e) # {}
         /\ \A j \in Downs(e) : IsTraverse(j + 1, "up")

\* C4: a traversal emits traverse::start once, before every other event of
\* the traversal (element::<root tag> included), and traverse::end once,
\* after every other event.
C4_StartFirstEndLast ==
    /\ emitted # <<>> => IsTraverse(1, "start")
    /\ \A i \in Calls : IsTraverse(i, "start") => i = 1
    /\ \A i \in Calls : IsTraverse(i, "end") => i = Len(emitted)
    /\ Fulfilled(1) => IsTraverse(Len(emitted), "end")

C4_Witness ==
    /\ Fulfilled(1)
    /\ IsTraverse(1, "start")
    /\ IsElement(2) /\ emitted[2].element = 1
    /\ IsTraverse(Len(emitted), "end")
    /\ Len(emitted) = 3 * doc.n + 2

\* C5: the element::* names emitted are the tag names of the tree in document
\* order, each lowercased, and a handler registered for element::* only is
\* invoked once per element in that order.
C5_DocumentOrderLowercased ==
    LET order == PreOrder
        expected == [k \in 1..doc.n |->
                        EventName("element", ToLowerCase(doc.nodeName[order[k]]))]
        calls == ElementCalls
        names == [k \in DOMAIN calls |->
                    EventName(emitted[calls[k]].ns, emitted[calls[k]].nm)]
    IN /\ IsPrefix(names, expected)
       /\ \A k \in DOMAIN calls : emitted[calls[k]].element = order[k]
       /\ Fulfilled(1) =>
            /\ names = expected
            /\ \A h \in DOMAIN listeners :
                 listeners[h] = EventName("element", Wildcard) =>
                    CallsOfHandler(h) = calls

C5_Witness ==
    /\ doc = SeedDoc
    /\ listeners = << EventName("element", Wildcard) >>
    /\ Fulfilled(1)
    /\ Len(invoked) = 6
    /\ ElementNames[1] = EventName("element", <<"h", "t", "m", "l">>)
    /\ ElementNames[6] = EventName("element", <<"p">>)

\* C6: at most one emitAsync call is outstanding at any time: an event is
\* emitted only after every earlier call has settled.
C6_OneOutstandingCall ==
    /\ Cardinality({ c \in Calls : Pending(c) }) <= 1
    /\ \A c \in Calls : Pending(c) => c = Len(emitted)

C6_Witness ==
    \E c \in Calls :
        /\ Pending(c)
        /\ dispatch[c].active # 0
        /\ IsElement(c)
        /\ emitted[c].element # 1
        /\ \A b \in 1..(c - 1) : settled[b] = "fulfilled"

HandlersInvokedFor(c) ==
    LET mine == SelectSeq(invoked, LAMBDA v : v.call = c)
    IN [k \in DOMAIN mine |-> mine[k].handler]

\* C8: a handler that throws or rejects does not keep the other handlers of
\* the event from being invoked, nor later events from being emitted: unless
\* the bus itself fails, no emitAsync call rejects, every fulfilled call has
\* invoked all its matching handlers, and the traversal is never cut short.
C8_HandlerFaultIsolated ==
    /\ \A c \in Calls :
         settled[c] = "fulfilled" =>
            HandlersInvokedFor(c) = MatchingHandlers(listeners, emitted[c])
    /\ ~busFault =>
         /\ \A c \in Calls : settled[c] # "rejected"
         /\ tasks[1].status # "rejected"
    /\ Fulfilled(1) /\ firstFault # NoFault =>
         /\ IsTraverse(Len(emitted), "end")
         /\ Len(emitted) = 3 * doc.n + 2

C8_Witness ==
    /\ listeners = << EventName("element", <<"p">>), EventName("element", <<"p">>) >>
    /\ firstFault.handler = 1
    /\ \E k \in DOMAIN invoked :
         invoked[k] = [handler |-> 2, call |-> firstFault.call]
    /\ ~busFault
    /\ Fulfilled(1)
    /\ IsTraverse(Len(emitted), "end")

\* C16: emitAsync invokes the handlers registered for the exact event name, in
\* registration order, then the handlers registered for the matching wildcard,
\* in registration order, all of them and each once; and it invokes a handler
\* of a call only when no handler of that call is still running.
C16_ExactThenWildcardSequential ==
    /\ [](\A c \in Calls :
            LET hs == HandlersInvokedFor(c)
                ev == emitted[c]
                matching == { h \in DOMAIN listeners :
                                IsExact(listeners[h], ev) \/ IsWild(listeners[h], ev) }
            IN /\ \A k \in DOMAIN hs : hs[k] \in matching
               /\ \A k, l \in DOMAIN hs :
                    k < l =>
                       \/ IsExact(listeners[hs[k]], ev) /\ IsWild(listeners[hs[l]], ev)
                       \/ /\ IsExact(listeners[hs[k]], ev) <=> IsExact(listeners[hs[l]], ev)
                          /\ hs[k] < hs[l]
               /\ settled[c] = "fulfilled" => { hs[k] : k \in DOMAIN hs } = matching
               /\ dispatch[c].active # 0 => hs # <<>> /\ hs[Len(hs)] = dispatch[c].active)
    /\ [][Len(invoked') > Len(invoked) =>
            /\ Len(invoked') = Len(invoked) + 1
            /\ dispatch[invoked'[Len(invoked')].call].active = 0]_vars

C16_Witness ==
    /\ listeners = << EventName("element", Wildcard), EventName("element", <<"p">>),
                       EventName("traverse", <<"down">>) >>
    /\ \E c \in Calls :
         /\ emitted[c].nm = <<"p">>
         /\ settled[c] = "fulfilled"
         /\ HandlersInvokedFor(c) = <<2, 1>>
    /\ firstFault # NoFault
    /\ Fulfilled(1)

\* C9: a traversal that has emitted traverse::start is never cut short: when
\* its promise has settled, it has fulfilled and traverse::end was emitted.
C9_RunsToTraverseEnd ==
    tasks[1].status \in {"fulfilled", "rejected"} =>
        /\ tasks[1].status = "fulfilled"
        /\ \E j \in Calls : IsTraverse(j, "end")

----------------------------------------------------------------------------
(* Two traversals on one bus *)

\* the documents traversed twice: a lone <p>, and a <p> inside a <p>
SharedDocs ==
    { [n |-> 1, parent |-> <<0>>, nodeName |-> << <<"P">> >>],
      [n |-> 2, parent |-> <<0, 1>>, nodeName |-> << <<"P">>, <<"P">> >>] }

InitShared ==
    /\ doc \in SharedDocs
    /\ listeners = <<>>
    /\ InitCommon

\* traverse() may be called a second time at any moment after the first call,
\* for the same resource or another one; the calls are numbered in call order
NextShared ==
    \/ Traverse(1, TargetResource)
    \/ \E r \in Resources : tasks[1].status # "idle" /\ Traverse(2, r)
    \/ \E t \in Tasks : TaskStep(t)
    \/ \E c \in Calls : Settle(c)
    \/ \E c \in Calls : BusRejects(c)

SpecShared == InitShared /\ [][NextShared]_vars

IsStart(i, r) == IsTraverse(i, "start") /\ emitted[i].resource = r
IsEnd(i, r) == IsTraverse(i, "end") /\ emitted[i].resource = r

\* the traverse::start events for r since the traverse::end for r before k
StartsBefore(k, r) ==
    { i \in 1..(k - 1) :
        /\ IsStart(i, r)
        /\ \A j \in (i + 1)..(k - 1) : ~IsEnd(j, r) }

\* C7 as stated: every traverse::end for a resource is preceded by exactly
\* one traverse::start for it, and between the two no event of a traversal
\* of another resource is emitted, however the traversals are started.
C7_NeverInterleaved ==
    \A k \in Calls :
        IsTraverse(k, "end") =>
            LET r == emitted[k].resource
                starts == StartsBefore(k, r)
            IN /\ Cardinality(starts) = 1
               /\ \A i \in starts : \A j \in i..k : emitted[j].resource = r

\* C7, amended: every traverse::end is emitted by a traversal that emitted
\* exactly one traverse::start before it, for the same resource; and when
\* each traversal is started after the one before has settled, no event of
\* another traversal lies between a traversal's traverse::start and its
\* traverse::end.
C7_SequentialNotInterleaved ==
    \A k \in Calls :
        IsTraverse(k, "end") =>
            LET mine == { i \in 1..(k - 1) :
                            /\ IsTraverse(i, "start")
                            /\ emitted[i].task = emitted[k].task }
            IN /\ Cardinality(mine) = 1
               /\ \A i \in mine :
                    /\ emitted[i].resource = emitted[k].resource
                    /\ ~overlapped =>
                         \A j \in i..k : emitted[j].task = emitted[k].task

C7_Witness ==
    /\ ~overlapped
    /\ Fulfilled(1) /\ Fulfilled(2)
    /\ tasks[1].resource # tasks[2].resource
    /\ Len(emitted) = 2 * (3 * doc.n + 2)
    /\ IsTraverse(Len(emitted), "end")

----------------------------------------------------------------------------
(* One scan: connector.collect(target) *)

Connector == 0

\* the call collect() awaits has settled
ConnReady == IF conn.awaiting = 0 THEN TRUE ELSE settled[conn.awaiting] # "pending"

ConnEmitAndStay(ns, nm, pc) ==
    /\ EmitAsync(Event(EventName(ns, nm), 0, TargetResource, Connector))
    /\ conn' = [pc |-> conn.pc, awaiting |-> NextCall]
ConnEmit(ns, nm, pc) ==
    /\ EmitAsync(Event(EventName(ns, nm), 0, TargetResource, Connector))
    /\ conn' = [pc |-> pc, awaiting |-> NextCall]

\* collect(target) is called: scan::start
Collect ==
    /\ conn.pc = "idle"
    /\ ConnEmit("scan", <<"start">>, "scan::start")
    /\ UNCHANGED <<subs, hintVars, formatVars, doc, listeners, tasks, invoked, firstFault, busFault,
                   overlapped>>

\* the target is requested: fetch::start::target
FetchStartTarget ==
    /\ conn.pc = "scan::start"
    /\ ConnReady
    /\ ConnEmit("fetch", <<"start", "target">>, "fetch::start::target")
    /\ UNCHANGED <<subs, hintVars, formatVars, doc, listeners, tasks, invoked, firstFault, busFault,
                   overlapped>>

\* the target's response has arrived: fetch::end::html
FetchEndHtml ==
    /\ conn.pc = "fetch::start::target"
    /\ ConnReady
    /\ ConnEmit("fetch", <<"end", "html">>, "fetch::end::html")
    /\ UNCHANGED <<subs, hintVars, formatVars, doc, listeners, tasks, invoked, firstFault, busFault,
                   overlapped>>

\* the target could not be fetched: no traversal takes place
TargetFails ==
    /\ conn.pc = "fetch::start::target"
    /\ ConnReady
    /\ conn' = [pc |-> "failed", awaiting |-> 0]
    /\ UNCHANGED <<subs, hintVars, formatVars, doc, listeners, tasks, emitted, settled, dispatch, invoked,
                   firstFault, busFault, overlapped>>

\* the document is loaded: the connector has it traversed
TraverseTarget ==
    /\ conn.pc = "fetch::end::html"
    /\ ConnReady
    /\ Traverse(1, TargetResource)

\* what the test's server answers for a URL: a status and media type, or the
\* URL the request is sent on to; test://fa.il is served by nothing
Server(u) ==
    CASE u = "http://localhost/script.js" ->
            [status |-> 200, mediaType |-> "text/javascript", location |-> ""]
      [] u = "http://localhost/script2.js" ->
            [status |-> 302, mediaType |-> "", location |-> "http://localhost/script.js"]
      [] u = "http://localhost/script3.js" ->
            [status |-> 302, mediaType |-> "", location |-> "http://localhost/script2.js"]
      [] u = "http://localhost/script4.js" ->
            [status |-> 404, mediaType |-> "text/javascript", location |-> ""]
      [] u = "http://localhost/script5.js" ->
            [status |-> 0, mediaType |-> "", location |-> "test://fa.il"]
      [] u = "http://localhost/style.css" ->
            [status |-> 200, mediaType |-> "text/css", location |-> ""]
      [] OTHER ->
            [status |-> 0, mediaType |-> "", location |-> ""]

\* a request that got no response
NoResponse(u, hops) == [url |-> u, hops |-> hops, statusCode |-> 0, mediaType |-> ""]

\* the request of a URL, redirects followed: the final URL, the URLs passed
\* through, and the status of the response (0: there was none)
RECURSIVE Request(_, _)
Request(u, hops) ==
    LET a == Server(u)
    IN IF a.location # "" THEN Request(a.location, Append(hops, u))
       ELSE IF a.status = 0 THEN NoResponse(u, hops)
       ELSE [url |-> u, hops |-> hops, statusCode |-> a.status,
             mediaType |-> a.mediaType]

\* the <type> of fetch::end::<type>
MediaTypeName(mediaType) ==
    CASE mediaType = "text/javascript" -> "script"
      [] mediaType = "text/css" -> "css"
      [] mediaType = "text/html" -> "html"
      [] OTHER -> "unknown"

\* the event that ends the request of sub-resource s: fetch::end::<type> with
\* every response, whatever its status, fetch::error without a response
FetchEndEventErrorOn404(s, a) ==
    [Event(IF a.statusCode \in {0, 404} THEN EventName("fetch", <<"error">>)
           ELSE EventName("fetch", <<"end", MediaTypeName(a.mediaType)>>),
           0, a.url, Connector)
       EXCEPT !.request = s, !.hops = a.hops, !.statusCode = a.statusCode]
FetchEndEventAlwaysEnd(s, a) ==
    [Event(EventName("fetch", <<"end", MediaTypeName(a.mediaType)>>),
           0, a.url, Connector)
       EXCEPT !.request = s, !.hops = a.hops, !.statusCode = a.statusCode]
FetchEndEvent(s, a) ==
    [Event(IF a.statusCode = 0 THEN EventName("fetch", <<"error">>)
           ELSE EventName("fetch", <<"end", MediaTypeName(a.mediaType)>>),
           0, a.url, Connector)
       EXCEPT !.request = s, !.hops = a.hops, !.statusCode = a.statusCode]

FetchStartCall(s) ==
    CHOOSE i \in Calls :
        emitted[i].ns = "fetch" /\ emitted[i].nm = <<"start">> /\ emitted[i].resource = s

\* the page requests a sub-resource: fetch::start
SubFetchStart(s) ==
    /\ conn.pc = "fetch::end::html"
    /\ ConnReady
    /\ subs[s] = "none"
    /\ EmitAsync(Event(EventName("fetch", <<"start">>), 0, s, Connector))
    /\ subs' = [subs EXCEPT ![s] = "started"]
    /\ UNCHANGED <<conn, hintVars, formatVars, doc, listeners, tasks, invoked, firstFault, busFault,
                   overlapped>>

\* the request of a sub-resource ends: fetch::end::<type> with a response,
\* fetch::error without one
SubFetchEnds(s, response) ==
    /\ subs[s] = "started"
    /\ ~Pending(FetchStartCall(s))
    /\ EmitAsync(FetchEndEvent(s, response))
    /\ subs' = [subs EXCEPT ![s] = "done"]
    /\ UNCHANGED <<conn, hintVars, formatVars, doc, listeners, tasks, invoked, firstFault, busFault,
                   overlapped>>

\* nothing of the scan is left to do: the traversal has settled (or the target
\* failed to load) and no request of a sub-resource is in flight
CanEndScanEarly ==
    /\ conn.pc \in {"fetch::end::html", "failed"}
    /\ ConnReady
CanEndScan ==
    /\ IF conn.pc = "fetch::end::html"
       THEN tasks[1].status \in {"fulfilled", "rejected"}
       ELSE conn.pc = "failed"
    /\ ConnReady
    /\ \A s \in DOMAIN subs : subs[s] # "started"

\* scan::end
ScanEnd ==
    /\ CanEndScan
    /\ ConnEmit("scan", <<"end">>, "scan::end")
    /\ UNCHANGED <<subs, hintVars, formatVars, doc, listeners, tasks, invoked, firstFault, busFault,
                   overlapped>>

\* scan::end has settled: the promise of collect() fulfils
CollectReturns ==
    /\ conn.pc = "scan::end"
    /\ ConnReady
    /\ conn' = [pc |-> "done", awaiting |-> 0]
    /\ UNCHANGED <<subs, hintVars, formatVars, doc, listeners, tasks, emitted, settled, dispatch, invoked,
                   firstFault, busFault, overlapped>>

\* the engine of the connector's event test: no handler is registered and
\* every emitAsync call fulfils
InitScan ==
    /\ doc \in SharedDocs
    /\ listeners = <<>>
    /\ InitCommon

NextScan ==
    \/ Collect
    \/ FetchStartTarget
    \/ FetchEndHtml
    \/ TargetFails
    \/ TraverseTarget
    \/ Walk(1)
    \/ \E s \in SubResources : SubFetchStart(s)
    \/ \E s \in SubResources :
          \E response \in {Request(s, <<>>), NoResponse(s, <<>>)} :
             SubFetchEnds(s, response)
    \/ ScanEnd
    \/ CollectReturns
    \/ \E c \in Calls : Settle(c)

SpecScan == InitScan /\ [][NextScan]_vars

IsScan(i, nm) == emitted[i].ns = "scan" /\ emitted[i].nm = <<nm>>

\* C10: scan::start is emitted before every other event of the scan and
\* scan::end after every other event.
C10_ScanStartFirstScanEndLast ==
    /\ emitted # <<>> => IsScan(1, "start")
    /\ \A i \in Calls : IsScan(i, "start") => i = 1
    /\ \A i \in Calls : IsScan(i, "end") => i = Len(emitted)

\* the number of times an event was emitted
EmittedTimes(ns, nm) ==
    Cardinality({ i \in Calls : emitted[i].ns = ns /\ emitted[i].nm = nm })

C10_Witness ==
    /\ conn.pc = "done"
    /\ Fulfilled(1)
    /\ \A s \in SubResources : subs[s] = "done"
    /\ \E i \in Calls : emitted[i].ns = "fetch" /\ emitted[i].nm = <<"error">>
    /\ \E i, j \in Calls : i < j /\ IsTraverse(i, "start") /\ emitted[j].ns = "fetch"
    /\ IsScan(1, "start")
    /\ IsScan(Len(emitted), "end")

----------------------------------------------------------------------------
(* One scan of the page of the connector's event test, with hints that report *)

\* the sub-resources the page of the test requests
PageResources ==
    { "http://localhost/script3.js", "http://localhost/style.css",
      "http://localhost/script4.js", "http://localhost/script5.js" }

\* the requests a scan of the model makes: one or two of the page's
Pages == { {a, b} : a, b \in PageResources }

\* hints that report a Problem for the resource of the event they handle
Reporters ==
    << EventName("fetch", <<"end", "script">>), EventName("fetch", <<"end", "css">>),
       EventName("fetch", <<"error">>), EventName("traverse", <<"end">>) >>

\* the hint running for call c reports: context.report(event.resource, ...)
HintReportsLastHop(c) ==
    /\ Pending(c)
    /\ dispatch[c].active # 0
    /\ Len(problems) < Len(invoked)
    /\ Report(IF emitted[c].hops = <<>> THEN emitted[c].resource
              ELSE emitted[c].hops[Len(emitted[c].hops)], 0, "reported")
    /\ UNCHANGED <<conn, subs, doc, listeners, tasks, emitted, settled, dispatch,
                   invoked, firstFault, busFault, overlapped, context,
                   requireMetaTag, suggestRemoval, validation, formatVars>>
HintReports(c) ==
    /\ Pending(c)
    /\ dispatch[c].active # 0
    /\ Len(problems) < Len(invoked)
    /\ Report(emitted[c].resource, 0, "reported")
    /\ UNCHANGED <<conn, subs, doc, listeners, tasks, emitted, settled, dispatch,
                   invoked, firstFault, busFault, overlapped, context,
                   requireMetaTag, suggestRemoval, validation, formatVars>>

InitFetch ==
    /\ doc \in SharedDocs
    /\ listeners = Reporters
    /\ InitEngine
    /\ InitHintCommon
    /\ InitFormatCommon
    /\ subs \in { [s \in page |-> "none"] : page \in Pages }

\* the events in the order of the test's list: the requests of the page's
\* sub-resources follow the traversal, and overlap each other
NextFetch ==
    \/ Collect
    \/ FetchStartTarget
    \/ FetchEndHtml
    \/ TraverseTarget
    \/ Walk(1)
    \/ \E s \in DOMAIN subs : Fulfilled(1) /\ SubFetchStart(s)
    \/ \E s \in DOMAIN subs : SubFetchEnds(s, Request(s, <<>>))
    \/ ScanEnd
    \/ CollectReturns
    \/ \E c \in Calls : Invoke(c)
    \/ \E c \in Calls : HintReports(c)
    \/ \E c \in Calls : HandlerSettles(c, FALSE)
    \/ \E c \in Calls : Settle(c)

SpecFetch == InitFetch /\ [][NextFetch]_vars

\* the event that ends the request of a sub-resource
IsSubFetchEnd(i) ==
    /\ emitted[i].ns = "fetch"
    /\ emitted[i].nm[1] \in {"end", "error"}
    /\ emitted[i].request # ""
IsFetchError(i) == emitted[i].ns = "fetch" /\ emitted[i].nm = <<"error">>
IsFetchStart(i, s) ==
    emitted[i].ns = "fetch" /\ emitted[i].nm = <<"start">> /\ emitted[i].resource = s

SubFetchEnds404 == { s \in PageResources : Server(s).status = 404 }
SubFetchEndsOf(s) == { i \in Calls : IsSubFetchEnd(i) /\ emitted[i].request = s }

\* C12 as stated: the request of a sub-resource the server answers with 404
\* ends with fetch::error, not with fetch::end::*.
C12_NotFoundGivesFetchError ==
    \A i \in Calls :
        IsSubFetchEnd(i) /\ emitted[i].request \in SubFetchEnds404 => IsFetchError(i)

\* C12, amended: the request of a sub-resource that gets no response
\* (script5.js) ends with one fetch::error, after its fetch::start, naming it
\* as first hop, and with no fetch::end::* for it; the request of a
\* sub-resource answered with 404 ends with one fetch::end::<type> and no
\* fetch::error; when collect() returns every request that was started has
\* ended and scan::end was emitted after them.
C12_NoResponseGivesFetchError ==
    /\ \A s \in DOMAIN subs :
         LET ends == SubFetchEndsOf(s)
         IN /\ Cardinality(ends) <= 1
            /\ \A i \in ends :
                 /\ \E j \in 1..(i - 1) : IsFetchStart(j, s)
                 /\ s = "http://localhost/script5.js" =>
                      /\ IsFetchError(i)
                      /\ emitted[i].hops # <<>> /\ emitted[i].hops[1] = s
                 /\ s \in SubFetchEnds404 => ~IsFetchError(i) /\ emitted[i].resource = s
            /\ s = "http://localhost/script5.js" =>
                 \A i \in Calls :
                    emitted[i].ns = "fetch" /\ emitted[i].nm[1] = "end" =>
                       emitted[i].resource # s /\ emitted[i].request # s
    /\ conn.pc = "done" =>
         /\ \A s \in DOMAIN subs :
              (\E j \in Calls : IsFetchStart(j, s)) => Cardinality(SubFetchEndsOf(s)) = 1
         /\ IsScan(Len(emitted), "end")

C12_Witness ==
    /\ conn.pc = "done"
    /\ DOMAIN subs = {"http://localhost/script4.js", "http://localhost/script5.js"}
    /\ \E i, j \in Calls :
         /\ i < j
         /\ IsFetchStart(i, "http://localhost/script5.js")
         /\ IsFetchError(j) /\ emitted[j].resource = "test://fa.il"
    /\ IsScan(Len(emitted), "end")

\* C13: for a sub-resource answered with status 404 the connector emits
\* fetch::start and then fetch::end::script whose response has statusCode 404;
\* fetch::error is emitted only for a sub-resource whose request ends without
\* a response; scan::end is emitted after these events.
C13_NotFoundGivesFetchEnd ==
    \A i \in Calls :
        IsSubFetchEnd(i) =>
            LET s == emitted[i].request
            IN /\ s \in SubFetchEnds404 =>
                    /\ emitted[i].nm = <<"end", "script">>
                    /\ emitted[i].statusCode = 404
                    /\ \E j \in 1..(i - 1) : IsFetchStart(j, s)
               /\ IsFetchError(i) =>
                    /\ emitted[i].statusCode = 0
                    /\ Server(emitted[i].resource).status = 0
                    /\ Server(emitted[i].resource).location = ""
               /\ \A k \in Calls : IsScan(k, "end") => i < k
               /\ conn.pc = "done" => IsScan(Len(emitted), "end")

C13_Witness ==
    /\ conn.pc = "done"
    /\ DOMAIN subs = {"http://localhost/script4.js", "http://localhost/script5.js"}
    /\ \E i, j \in Calls :
         /\ i < j
         /\ IsFetchStart(i, "http://localhost/script4.js")
         /\ emitted[j].nm = <<"end", "script">>
         /\ emitted[j].statusCode = 404
         /\ \E k \in (j + 1)..Len(emitted) : IsFetchError(k)
    /\ IsScan(Len(emitted), "end")

\* the events that begin a request: fetch::start and fetch::start::target
IsAnyFetchStart(i) == emitted[i].ns = "fetch" /\ emitted[i].nm[1] = "start"

\* C14 as stated: the resource of every Problem is the resource of a
\* fetch::start or fetch::start::target event emitted before the report.
C14_ProblemResourceWasStarted ==
    \A k \in DOMAIN problems :
        \E i \in Calls : IsAnyFetchStart(i) /\ emitted[i].resource = problems[k].resource

\* C14, amended: the resource of every Problem is the resource of an event
\* emitted before the report, and the request that event belongs to (the
\* request URL of fetch::end::* and fetch::error, the resource of any other
\* event) is the resource of an earlier fetch::start or fetch::start::target.
C14_ProblemResourceWasEmitted ==
    \A k \in DOMAIN problems :
        \E i \in Calls :
            /\ emitted[i].resource = problems[k].resource
            /\ \E j \in 1..i :
                 /\ IsAnyFetchStart(j)
                 /\ emitted[j].resource = IF emitted[i].request # ""
                                          THEN emitted[i].request
                                          ELSE emitted[i].resource

C14_Witness ==
    /\ conn.pc = "done"
    /\ \E k \in DOMAIN problems : problems[k].resource = "http://localhost/script.js"
    /\ \E k \in DOMAIN problems : problems[k].resource = "test://fa.il"
    /\ \E k \in DOMAIN problems : problems[k].resource = TargetResource

----------------------------------------------------------------------------
(* The rule highest-available-document-mode, created and sent traverse::end *)

InitHint ==
    /\ doc = SeedDoc
    /\ listeners = <<>>
    /\ InitEngine
    /\ InitFormatCommon
    /\ subs = [s \in SubResources |-> "none"]
    /\ context \in [ruleOptions : RuleOptions, targetedBrowsers : TargetedBrowsers,
                     pageHeaders : PageHeaders, pageDOM : PageDOMs,
                     severity : Severities]
    /\ requireMetaTag = FALSE
    /\ suggestRemoval = FALSE
    /\ problems = <<>>
    /\ validation = NotCreated

NextHint ==
    \/ Create
    \/ ContextChanges
    \/ \E resource \in HintResources : Validate(resource)
    \/ CheckHeaderReturns
    \/ CheckMetaTagResumes
    \/ QueryRejects

SpecHint == InitHint /\ [][NextHint]_vars

DocumentModeBrowsers == {"ie 8", "ie 9", "ie 10"}

\* C15: a report made while the severity of the hint is off leaves the list
\* of Problems as it is; every other report appends one Problem; and no step
\* changes or removes a Problem already in the list.
C15_ReportOffIsNoOpAppendOnly ==
    [][/\ IsPrefix(problems, problems')
       /\ Len(problems') <= Len(problems) + 1
       /\ validation'.reports > validation.reports =>
             IF context.severity = "off" THEN problems' = problems
             ELSE Len(problems') = Len(problems) + 1
       /\ validation'.reports = validation.reports => problems' = problems]_vars

C15_Witness ==
    /\ context.severity = "off"
    /\ validation.status = "fulfilled"
    /\ validation.reports >= 3
    /\ problems = <<>>

\* C17: requireMetaTag and suggestRemoval are set in create() and never
\* change afterwards, and every check reads the values set then, whatever the
\* options and the browser list of the context have become since.
C17_ConfigsFixedAtCreate ==
    /\ [](validation.created =>
            /\ Configs(requireMetaTag, suggestRemoval) = validation.factory
            /\ validation.used = validation.factory)
    /\ [][validation.created =>
            /\ requireMetaTag' = requireMetaTag
            /\ suggestRemoval' = suggestRemoval
            /\ validation'.factory = validation.factory]_vars

C17_Witness ==
    /\ validation.created
    /\ LoadRuleConfigs(context).requireMetaTag # requireMetaTag
    /\ LoadRuleConfigs(context).suggestRemoval # suggestRemoval
    /\ validation.status = "fulfilled"
    /\ Len(validation.calls) = 2
    /\ Len(problems) >= 2

\* C18: when the promise of validate() has settled, checkHeader is not still
\* awaiting a report, and a fault of the header check or of the meta-tag
\* check has rejected the promise of validate(): no rejection is left to a
\* promise that nothing awaits.
C18_ValidateSettlesAfterItsChecks ==
    /\ validation.status \in {"fulfilled", "rejected"} => validation.header # "awaiting"
    /\ validation.status = "fulfilled" => validation.header # "rejected"
    /\ ~validation.escaped

\* C19: create() sets suggestRemoval exactly when the targeted browsers
\* include none of 'ie 8', 'ie 9', 'ie 10'; when it is set, a response with
\* the X-UA-Compatible header is reported as not needed and a response
\* without it is not reported.
C19_SuggestsRemovalWithoutDocumentModeBrowsers ==
    [][/\ ~validation.created /\ validation'.created =>
            (suggestRemoval' <=>
                ~\E e \in DocumentModeBrowsers : Includes(context.targetedBrowsers, e))
       /\ /\ Len(validation'.headerCalls) > Len(validation.headerCalls)
          /\ suggestRemoval
          /\ context.pageHeaders.defined
          /\ context.severity # "off"
          => IF context.pageHeaders.xua = Undefined THEN problems' = problems
             ELSE /\ Len(problems') = Len(problems) + 1
                  /\ problems'[Len(problems')].message = HeaderNotNeeded]_vars

\* C20: checkHeader is called once for every traverse::end whose resource has
\* another protocol than file: and never for one whose resource has the file:
\* protocol, so that no Problem about the header has such a resource; the
\* meta-tag check runs for every traverse::end.
C20_NoHeaderCheckForLocalFiles ==
    /\ validation.headerCalls =
          SelectSeq(validation.calls, LAMBDA r : Protocol(r) # "file:")
    /\ \A k \in DOMAIN problems :
          problems[k].message \in HeaderMessages => Protocol(problems[k].resource) # "file:"
    /\ validation.status = "fulfilled" =>
          validation.tags =
             GetXUACompatibleMetaTags(context.pageDOM,
                                      QuerySelectorAll(context.pageDOM, "meta"))

C20_Witness ==
    /\ validation.status = "fulfilled"
    /\ validation.calls = <<"http://localhost/", "FILE:///C:/index.html">>
    /\ validation.headerCalls = <<"http://localhost/">>
    /\ context.pageHeaders.xua = "IE=8"
    /\ \E k \in DOMAIN problems :
          /\ problems[k].resource = "FILE:///C:/index.html"
          /\ problems[k].message = MetaNotNeeded
    /\ Cardinality({ k \in DOMAIN problems : problems[k].message \in HeaderMessages }) = 1

\* the Problems reported since validate() was last called
Reported == SubSeq(problems, validation.mark + 1, Len(problems))

\* how many of them have the message and the element
TimesReported(message, element) ==
    Cardinality({ k \in DOMAIN Reported : /\ Reported[k].message = message
                                          /\ Reported[k].element = element })

\* the X-UA-Compatible meta tags of the page, and the first of them
IsXUAMetaTag(el) ==
    /\ el.nodeName \in {"meta", "META"}
    /\ el.httpEquiv \in {"x-ua-compatible", "X-UA-Compatible"}
XUAMetaTags == { k \in DOMAIN context.pageDOM : IsXUAMetaTag(context.pageDOM[k]) }
FirstXUAMetaTag == CHOOSE k \in XUAMetaTags : \A j \in XUAMetaTags : k <= j

\* the elements of the page a Problem can be located at, 0: none
PageElements == 0..Len(context.pageDOM)

MetaTagRequired == requireMetaTag /\ ~suggestRemoval

\* the last validate() has fulfilled and its reports were recorded
Validated == validation.status = "fulfilled" /\ context.severity # "off"

\* C21: when the meta tag is required and the page has X-UA-Compatible meta
\* tags, every such tag but the first is reported once as already specified
\* and nothing else is, wherever the first tag is.
C21_OthersAlreadySpecifiedWherever ==
    Validated /\ MetaTagRequired /\ XUAMetaTags # {} =>
        \A e \in PageElements :
            TimesReported(MetaAlready, e) =
                IF e \in XUAMetaTags \ {FirstXUAMetaTag} THEN 1 ELSE 0

\* C21, amended: when the meta tag is required and the first X-UA-Compatible
\* meta tag is in <head>, every other such tag is reported once as already
\* specified and nothing else is; when the first tag is in <body>, it is
\* reported once as not to be specified in <body> and no tag is reported as
\* already specified.
C21_OthersAlreadySpecifiedUnlessFirstInBody ==
    Validated /\ MetaTagRequired /\ XUAMetaTags # {} =>
        LET inBody == context.pageDOM[FirstXUAMetaTag].section = "body"
        IN \A e \in PageElements :
              /\ TimesReported(MetaAlready, e) =
                    IF ~inBody /\ e \in XUAMetaTags \ {FirstXUAMetaTag} THEN 1 ELSE 0
              /\ TimesReported(MetaInBody, e) =
                    IF inBody /\ e = FirstXUAMetaTag THEN 1 ELSE 0

C21_Witness ==
    /\ Validated /\ MetaTagRequired
    /\ Cardinality(XUAMetaTags) = 3
    /\ context.pageDOM[FirstXUAMetaTag].section = "head"
    /\ TimesReported(MetaAlready, 4) = 1
    /\ TimesReported(MetaAlready, 5) = 1

\* some element of <head> that is neither a title nor a meta, whatever the
\* case of its tag, comes before the first X-UA-Compatible meta tag in <head>
OtherTagPrecedesInHead ==
    /\ context.pageDOM[FirstXUAMetaTag].section = "head"
    /\ \E k \in 1..(FirstXUAMetaTag - 1) :
          /\ context.pageDOM[k].section = "head"
          /\ context.pageDOM[k].nodeName \notin {"title", "TITLE", "meta", "META"}

\* C22: when the meta tag is required, the first X-UA-Compatible meta tag is
\* reported once as not coming before all other tags exactly when an element
\* of <head> that is neither a title nor a meta precedes it in <head>; no
\* other element is reported so, and without such a tag nothing is.
C22_NotFirstExactlyWhenPreceded ==
    Validated /\ MetaTagRequired =>
        \A e \in PageElements :
            TimesReported(MetaNotFirst, e) =
                IF XUAMetaTags # {} /\ e = FirstXUAMetaTag /\ OtherTagPrecedesInHead
                THEN 1 ELSE 0

C22_Witness ==
    /\ Validated /\ MetaTagRequired
    /\ validation.calls = <<"http://localhost/", "http://localhost/">>
    /\ XUAMetaTags # {} /\ FirstXUAMetaTag = 2
    /\ context.pageDOM[1].nodeName = "script"
    /\ TimesReported(MetaNotFirst, 2) = 1

MetaMessages == {MetaNotNeeded, MetaMissing, MetaContent, MetaNotFirst, MetaInBody,
                 MetaAlready}

\* C23: when the meta tag is not required, or removal is suggested, every
\* X-UA-Compatible meta tag of the page, whatever the case of its http-equiv,
\* is reported once as not needed, located at that tag, and the meta-tag
\* check reports nothing else; a page without such a tag gets no report of it.
C23_NotNeededOncePerTag ==
    Validated /\ ~MetaTagRequired =>
        /\ \A e \in PageElements :
              TimesReported(MetaNotNeeded, e) = IF e \in XUAMetaTags THEN 1 ELSE 0
        /\ \A k \in DOMAIN Reported :
              Reported[k].message \in MetaMessages => Reported[k].message = MetaNotNeeded

C23_Witness ==
    /\ Validated /\ ~MetaTagRequired
    /\ Cardinality(XUAMetaTags) = 3
    /\ Len(validation.calls) = 2
    /\ \A e \in XUAMetaTags : TimesReported(MetaNotNeeded, e) = 1
    /\ \E e \in XUAMetaTags : context.pageDOM[e].httpEquiv = "X-UA-Compatible"

----------------------------------------------------------------------------
(* The formatter, given the Problems of a scan *)

\* the source code of an element of L lines: the first line as it is in the
\* page, the last with the indentation of the element, the others deeper,
\* the fourth empty
SourceCode(L, indent) ==
    [i \in 1..L |->
        IF i = 1 THEN <<"<", "a", " ", "b", ">">>
        ELSE IF i = L THEN Spaces(indent) \o <<"<", "/", "a", ">">>
        ELSE IF i = 4 THEN <<>>
        ELSE Spaces(indent + 2) \o <<"x">>]

PageSourceCode == SourceCode(3, 2)

\* Problems of a page, which have source code, and of a style sheet, which
\* have none
ListedProblems ==
    { FormatterProblem(resource, severity,
                       Location(at[1], at[2], Number(at[1]), Number(at[2])),
                       IF resource = "http://localhost/" THEN PageSourceCode ELSE <<>>) :
        resource \in {"http://localhost/", "http://localhost/style.css"},
        severity \in {"error", "warning"},
        at \in { <<1, 2>>, <<2, 1>>, <<2, 2>> } }

\* Problems with source code of every length and an element line anywhere
\* in it, before it, after it, or missing
FramedProblems ==
    { FormatterProblem("http://localhost/", "warning",
                       Location(1, 2, elementLine, elementColumn),
                       SourceCode(L, indent)) :
        L \in 1..MaxLines, indent \in {0, 2},
        elementLine \in {NoNumber} \cup { Number(n) : n \in (-1)..(MaxLines + 3) },
        elementColumn \in {NoNumber, Number(0), Number(3), Number(60)} }

InitFormat ==
    /\ doc = SeedDoc
    /\ listeners = <<>>
    /\ InitEngine
    /\ subs = [s \in SubResources |-> "none"]
    /\ InitHintCommon
    /\ messages \in UNION { [1..n -> ListedProblems] : n \in 0..MaxProblems }
                       \cup { <<p>> : p \in FramedProblems }
    /\ formatter = NotCalled

NextFormat ==
    \/ \E output \in Outputs : Format([output |-> output])
    \/ WriteFileFulfils
    \/ WriteFileRejects

SpecFormat == InitFormat /\ [][NextFormat]_vars

\* the results format() has delivered, logged or written
Delivered ==
    formatter.logged \o [k \in DOMAIN formatter.written |-> formatter.written[k].data]

\* the one-to-one maps from the places of a list of n Problems to themselves
Places(n) == { f \in [1..n -> 1..n] : \A i, j \in 1..n : f[i] = f[j] => i = j }

SameLocation(a, b) ==
    a.location.line = b.location.line /\ a.location.column = b.location.column

\* C24: the result presents every Problem of the list once; the Problems of
\* one resource come together, in the order of their line and, on the same
\* line, of their column; Problems of one resource with the same line and
\* column come in the order of the list; and no step changes the list given
\* to format().
C24_GroupedSortedStableReadOnly ==
    /\ [](formatter.status # "idle" /\ messages # <<>> =>
            LET shown == formatter.presented
                n == Len(messages)
            IN /\ Len(shown) = n
               /\ \E f \in Places(n) :
                     /\ \A i \in 1..n : shown[i] = messages[f[i]]
                     /\ \A i, j \in 1..n :
                           /\ i < j
                           /\ shown[i].resource = shown[j].resource
                           /\ SameLocation(shown[i], shown[j])
                           => f[i] < f[j]
               /\ \A i, j, k \in 1..n :
                     i < j /\ j < k /\ shown[i].resource = shown[k].resource
                     => shown[j].resource = shown[i].resource
               /\ \A i, j \in 1..n :
                     i < j /\ shown[i].resource = shown[j].resource =>
                        \/ shown[i].location.line < shown[j].location.line
                        \/ /\ shown[i].location.line = shown[j].location.line
                           /\ shown[i].location.column <= shown[j].location.column
               /\ \A d \in DOMAIN Delivered :
                     /\ Len(Delivered[d].partials) = n
                     /\ \A i \in 1..n :
                           /\ Delivered[d].partials[i].resource = shown[i].resource
                           /\ Delivered[d].partials[i].severity = "Error"
                                 <=> shown[i].severity = "error")
    /\ [][messages' = messages]_vars

C24_Witness ==
    /\ formatter.status = "fulfilled"
    /\ Len(formatter.logged) = 1
    /\ Len(messages) = 3
    /\ messages[1].resource = "http://localhost/style.css"
    /\ messages[2].resource = "http://localhost/"
    /\ messages[3].resource = "http://localhost/style.css"
    /\ messages[1].location.line = 2 /\ messages[1].location.column = 1
    /\ messages[3].location.line = 1
    /\ formatter.presented = << messages[3], messages[1], messages[2] >>

\* how many Problems of the list have the severity error
ErrorsGiven == Cardinality({ k \in DOMAIN messages : messages[k].severity = "error" })

\* C25: a call of format() with Problems that has returned has delivered one
\* result: written to the file of options.output when that names a file,
\* logged otherwise; its totals are the number of Problems with severity error
\* and the number of the others, which add up to the length of the list.  No
\* result is delivered twice, and none for an empty list.
C25_TotalsAndOneDelivery ==
    /\ Len(formatter.logged) + Len(formatter.written) <= 1
    /\ messages = <<>> => formatter.logged = <<>> /\ formatter.written = <<>>
    /\ formatter.status = "fulfilled" /\ messages # <<>> =>
          /\ Len(Delivered) = 1
          /\ IF formatter.options.output \in {Undefined, ""}
             THEN Len(formatter.logged) = 1
             ELSE /\ Len(formatter.written) = 1
                  /\ formatter.written[1].path = formatter.options.output
          /\ Delivered[1].totalErrors = ErrorsGiven
          /\ Delivered[1].totalWarnings = Len(messages) - ErrorsGiven
          /\ Delivered[1].totalErrors + Delivered[1].totalWarnings = Len(messages)

C25_Witness ==
    /\ formatter.status = "fulfilled"
    /\ formatter.options.output = "report.txt"
    /\ Len(formatter.written) = 1
    /\ formatter.logged = <<>>
    /\ Len(messages) = 3
    /\ formatter.written[1].data.totalErrors = 2
    /\ formatter.written[1].data.totalWarnings = 1

\* the frames of the results delivered, each with the Problem it is for
Frames ==
    { [frame |-> Delivered[d].partials[k].frame, msg |-> formatter.presented[k]] :
        d \in DOMAIN Delivered, k \in DOMAIN formatter.presented }

\* the places of a frame that hold a line of the kind
FramePlaces(frame, kind) == { k \in DOMAIN frame : frame[k].kind = kind }

\* C26: for source code of L lines and the element line n of the location,
\* -1 when it is missing, the frame has the lines of index max(n - 2, 0) up to
\* but not min(n + 3, L + 1), in that order; it begins with a line of dots
\* exactly when the first index is not 0 and ends with one exactly when the
\* last index is not L + 1; and it has one line with the mark, right after
\* line n, when n is among the indexes, and none otherwise.
C26_FrameLinesEllipsesAndMark ==
    \A fr \in Frames :
        fr.msg.sourceCode # <<>> =>
        LET frame == fr.frame
            L == Len(fr.msg.sourceCode)
            n == IF fr.msg.location.elementLine.defined
                 THEN fr.msg.location.elementLine.value ELSE -1
            first == IF n - 2 > 0 THEN n - 2 ELSE 0
            last == IF n + 3 < L + 1 THEN n + 3 ELSE L + 1
            shown == IF last > first THEN [k \in 1..(last - first) |-> first + k - 1]
                     ELSE <<>>
            code == SelectSeq(frame, LAMBDA l : l.kind = "code")
            dots == FramePlaces(frame, "ellipsis")
            marks == FramePlaces(frame, "mark")
        IN /\ [k \in DOMAIN code |-> code[k].i] = shown
           /\ dots = (IF first # 0 THEN {1} ELSE {})
                        \cup (IF last # L + 1 THEN {Len(frame)} ELSE {})
           /\ first # 0 /\ last # L + 1 => Len(frame) >= 2
           /\ Cardinality(marks) =
                 IF fr.msg.location.elementLine.defined /\ first <= n /\ n < last
                 THEN 1 ELSE 0
           /\ \A k \in marks :
                 k > 1 /\ frame[k - 1].kind = "code" /\ frame[k - 1].i = n

C26_Witness ==
    \E fr \in Frames :
        /\ Len(fr.msg.sourceCode) = 6
        /\ fr.msg.location.elementLine = Number(3)
        /\ [k \in DOMAIN fr.frame |-> fr.frame[k].kind] =
              << "ellipsis", "code", "code", "code", "mark", "code", "code", "ellipsis" >>
        /\ [k \in DOMAIN fr.frame |-> fr.frame[k].i] = << -1, 1, 2, 3, 3, 4, 5, -1 >>


====
